---------------------------- MODULE Spec2Model ----------------------------
(* MalignancyProcessor of hiera-luna25-finetuning/processor.py as a state  *)
(* machine: construction (model selection), define_inputs and predict.     *)
(* Two instances are driven in lock step with the same calls and the same  *)
(* environment; they differ only in suppress_logs.                         *)
EXTENDS Integers, Sequences, FiniteSets, TLC

VARIABLES ctor, obj, ret, trace, log, cargs, args, env, call

vars == <<ctor, obj, ret, trace, log, cargs, args, env, call>>

(***************************************************************************)
(* Strings are sequences of one-character strings, so that lower(), the    *)
(* substring test and os.path.join are computed, not assumed.               *)
(***************************************************************************)
UpperChars == <<"A","B","C","D","E","F","G","H","I","J","K","L","M",
                "N","O","P","Q","R","S","T","U","V","W","X","Y","Z">>

LowerChars == <<"a","b","c","d","e","f","g","h","i","j","k","l","m",
                "n","o","p","q","r","s","t","u","v","w","x","y","z">>

LowerChar(c) ==
    IF \E i \in 1..Len(UpperChars) : UpperChars[i] = c
    THEN LowerChars[CHOOSE i \in 1..Len(UpperChars) : UpperChars[i] = c]
    ELSE c

\* str.lower()
Lower(s) == [i \in 1..Len(s) |-> LowerChar(s[i])]

\* the Python operator `sub in s` on strings
Contains(sub, s) ==
    \E i \in 0..(Len(s) - Len(sub)) : SubSeq(s, i + 1, i + Len(sub)) = sub

Sep == "/"

\* one step of posixpath.join: an absolute component discards what precedes it
PathJoin2(path, b) ==
    IF Len(b) > 0 /\ b[1] = Sep THEN b
    ELSE IF Len(path) = 0 \/ path[Len(path)] = Sep THEN path \o b
    ELSE path \o <<Sep>> \o b

\* os.path.join(a, b, c)
OsPathJoin(a, b, c) == PathJoin2(PathJoin2(a, b), c)

StrHiera == <<"h","i","e","r","a">>
StrVit == <<"v","i","t">>

\* self.model_root
ModelRoot == <<"/","o","p","t","/","a","p","p","/","r","e","s","o","u","r","c","e","s","/">>

CkptFile == <<"b","e","s","t","_","m","e","t","r","i","c","_","m","o","d","e","l",".","p","t","h">>

size_px == 64
size_mm == 50
depth_px == 16

(***************************************************************************)
(* Inputs of the calls and of the environment.                             *)
(***************************************************************************)
MaxCoords == 2

Modes == {"3D", "2D", "3d"}

ModelNames ==
    { <<"H","i","e","r","a">>,
      <<"/","V","i","T">>,
      <<"r","e","s","n","e","t">>,
      <<"h","i","e","r","a","-","v","i","t">>,
      <<>> }

Images == {"ctA", "ctB"}

HeaderKeys == {"origin", "spacing", "transform"}

\* header dictionaries: complete, without "spacing", and empty
Headers ==
    UNION { [S -> {"unit"}] : S \in {HeaderKeys, HeaderKeys \ {"spacing"}, {}} }

Points == {"pA", "pB"}

CoordSeqs == UNION { [1..n -> Points] : n \in 0..MaxCoords }

Checkpoints == {"ckptA", "ckptB"}

\* what the collaborators do during one predict call: the coordinate (if any)
\* for which dataloader.extract_patch raises, the state of the checkpoint file,
\* and whether the forward pass raises
Envs ==
    { e \in [bad : {"none", "pB"},
             file : {"ok", "missing", "mismatch"},
             ckpt : Checkpoints,
             forwardOk : BOOLEAN] :
        e.file # "ok" => (e.ckpt = "ckptA" /\ e.forwardOk) }

NoEnv == [bad |-> "none", file |-> "ok", ckpt |-> "ckptA", forwardOk |-> TRUE]

Inst == {1, 2}

\* instance 1 logs, instance 2 is constructed with suppress_logs=True
SuppressOf(k) == k = 2

(***************************************************************************)
(* Construction.                                                           *)
(***************************************************************************)
NoModel == [variant |-> "none", weights |-> "none", training |-> FALSE]

\* Hiera3D(...), Hiera2D(...), ViT2D(...) with kind="finetuned": a fresh module
NewModel(variant) == [variant |-> variant, weights |-> "finetuned", training |-> TRUE]

EmptyHeader == [k \in {} |-> "unit"]

NoObj ==
    [size_px |-> 0, size_mm |-> 0, depth_px |-> 0,
     model_name |-> <<>>, mode |-> "", suppress_logs |-> FALSE,
     model_3d |-> NoModel, model_2d |-> NoModel, model_root |-> <<>>,
     attrs |-> {}, image |-> "", header |-> EmptyHeader, coords |-> <<>>]

\* the chain with the names compared as given, lower() forgotten
SelectModelNoLower(mode, model_name) ==
    IF mode = "3D" /\ Contains(StrHiera, model_name)
    THEN [attr |-> "model_3d", variant |-> "Hiera3D"]
    ELSE IF mode = "2D" /\ Contains(StrHiera, model_name)
    THEN [attr |-> "model_2d", variant |-> "Hiera2D"]
    ELSE IF mode = "2D" /\ Contains(StrVit, model_name)
    THEN [attr |-> "model_2d", variant |-> "ViT2D"]
    ELSE [attr |-> "raise", variant |-> "none"]

\* the if/elif chain of __init__: which attribute gets which model, or "raise"
SelectModel(mode, model_name) ==
    IF mode = "3D" /\ Contains(StrHiera, Lower(model_name))
    THEN [attr |-> "model_3d", variant |-> "Hiera3D"]
    ELSE IF mode = "2D" /\ Contains(StrHiera, Lower(model_name))
    THEN [attr |-> "model_2d", variant |-> "Hiera2D"]
    ELSE IF mode = "2D" /\ Contains(StrVit, Lower(model_name))
    THEN [attr |-> "model_2d", variant |-> "ViT2D"]
    ELSE [attr |-> "raise", variant |-> "none"]

\* __init__: the outcome, the object (when there is one) and the log output
Construct(mode, suppress_logs, model_name) ==
    LET sel == SelectModel(mode, model_name)
        out == IF suppress_logs THEN <<>> ELSE <<"Initializing the deep learning system">>
    IN  IF sel.attr = "raise"
        THEN [outcome |-> "ValueError", obj |-> NoObj, log |-> out]
        ELSE [outcome |-> "ok",
              obj |-> [NoObj EXCEPT
                         !.size_px = size_px, !.size_mm = size_mm, !.depth_px = depth_px,
                         !.model_name = model_name, !.mode = mode,
                         !.suppress_logs = suppress_logs,
                         !.model_3d = IF sel.attr = "model_3d"
                                      THEN NewModel(sel.variant) ELSE NoModel,
                         !.model_2d = IF sel.attr = "model_2d"
                                      THEN NewModel(sel.variant) ELSE NoModel,
                         !.model_root = ModelRoot],
              log |-> out]

\* define_inputs that keeps a header once one is set
DefineInputsKeepHeader(o, image, header, coords) ==
    [o EXCEPT !.image = image,
              !.header = IF "header" \in o.attrs THEN @ ELSE header,
              !.coords = coords,
              !.attrs = @ \cup {"image", "header", "coords"}]

\* define_inputs
DefineInputs(o, image, header, coords) ==
    [o EXCEPT !.image = image, !.header = header, !.coords = coords,
              !.attrs = @ \cup {"image", "header", "coords"}]

(***************************************************************************)
(* Patch extraction and normalisation.                                     *)
(***************************************************************************)
Ev(op, arg) ==
    [op |-> op, arg |-> arg, path |-> <<>>, out |-> <<>>, shape |-> <<>>, model |-> ""]

\* dataloader.extract_patch: the resampled patch is a function of its arguments
DataloaderExtractPatch(CTData, coord, origin, transform, spacing, output_shape, voxel_spacing, mode) ==
    [image |-> CTData, coord |-> coord,
     geometry |-> <<origin, transform, spacing>>,
     shape |-> output_shape, pitch |-> voxel_spacing, interp |-> mode,
     dtype |-> "source", scaled |-> FALSE,
     mean |-> <<>>, std |-> <<>>, layout |-> "raw"]

\* astype(float32), clip_and_scale, v2.Normalize by self.mode, permute in 3D
Normalize(o, patch) ==
    [patch EXCEPT
       !.dtype = "float32",
       !.scaled = TRUE,
       !.mean = IF o.mode = "2D" THEN <<485, 456, 406>> ELSE <<450, 450, 450>>,
       !.std = IF o.mode = "2D" THEN <<229, 224, 225>> ELSE <<225, 225, 225>>,
       !.layout = IF o.mode = "3D" THEN "CDHW" ELSE "raw"]

NoPatch ==
    [image |-> "", coord |-> "", geometry |-> <<>>, shape |-> <<>>, pitch |-> <<>>,
     interp |-> "", dtype |-> "", scaled |-> FALSE, mean |-> <<>>, std |-> <<>>,
     layout |-> ""]

\* extract_patch: the arguments are evaluated in order (self.image, then
\* header["origin"], header["transform"], header["spacing"]) before
\* dataloader.extract_patch is entered
ExtractPatch(o, coord, output_shape, mode, e) ==
    IF "image" \notin o.attrs \/ "header" \notin o.attrs
    THEN [error |-> "AttributeError", patch |-> NoPatch, trace |-> <<>>]
    ELSE IF \E key \in HeaderKeys : key \notin DOMAIN o.header
    THEN [error |-> "KeyError", patch |-> NoPatch, trace |-> <<>>]
    ELSE LET called == [Ev("extract_patch", coord) EXCEPT !.shape = output_shape]
         IN  IF e.bad = coord
             THEN [error |-> "ExtractionError", patch |-> NoPatch, trace |-> <<called>>]
             ELSE [error |-> "none",
                   patch |-> Normalize(o,
                               DataloaderExtractPatch(o.image, coord,
                                   o.header["origin"], o.header["transform"],
                                   o.header["spacing"], output_shape,
                                   <<o.size_mm, o.size_px>>, mode)),
                   trace |-> <<called, Ev("normalize", coord)>>]

RECURSIVE ExtractLoopReversed(_, _, _, _, _, _, _, _)
ExtractLoopReversed(o, coords, i, output_shape, mode, e, nodules, tr) ==
    IF i > Len(coords)
    THEN [error |-> "none", nodules |-> nodules, trace |-> tr]
    ELSE LET r == ExtractPatch(o, coords[i], output_shape, mode, e)
         IN  IF r.error # "none"
             THEN [error |-> r.error, nodules |-> <<>>, trace |-> tr \o r.trace]
             ELSE ExtractLoopReversed(o, coords, i + 1, output_shape, mode, e,
                                      <<r.patch>> \o nodules, tr \o r.trace)

\* a loop that inserts each patch at the front of the list
ExtractAllReversed(o, coords, output_shape, mode, e) ==
    ExtractLoopReversed(o, coords, 1, output_shape, mode, e, <<>>, <<>>)

RECURSIVE ExtractLoopSkipping(_, _, _, _, _, _, _, _)
ExtractLoopSkipping(o, coords, i, output_shape, mode, e, nodules, tr) ==
    IF i > Len(coords)
    THEN [error |-> "none", nodules |-> nodules, trace |-> tr]
    ELSE LET r == ExtractPatch(o, coords[i], output_shape, mode, e)
         IN  ExtractLoopSkipping(o, coords, i + 1, output_shape, mode, e,
                 IF r.error # "none" THEN nodules ELSE Append(nodules, r.patch),
                 tr \o r.trace)

\* a loop that catches a failed extraction and goes on with the next candidate
ExtractAllSkipping(o, coords, output_shape, mode, e) ==
    ExtractLoopSkipping(o, coords, 1, output_shape, mode, e, <<>>, <<>>)

\* for _coord in self.coords: nodules.append(self.extract_patch(...));
\* an exception leaves the loop, and the call, at once
RECURSIVE ExtractLoop(_, _, _, _, _, _, _, _)
ExtractLoop(o, coords, i, output_shape, mode, e, nodules, tr) ==
    IF i > Len(coords)
    THEN [error |-> "none", nodules |-> nodules, trace |-> tr]
    ELSE LET r == ExtractPatch(o, coords[i], output_shape, mode, e)
         IN  IF r.error # "none"
             THEN [error |-> r.error, nodules |-> <<>>, trace |-> tr \o r.trace]
             ELSE ExtractLoop(o, coords, i + 1, output_shape, mode, e,
                              Append(nodules, r.patch), tr \o r.trace)

ExtractAll(o, coords, output_shape, mode, e) ==
    ExtractLoop(o, coords, 1, output_shape, mode, e, <<>>, <<>>)

(***************************************************************************)
(* The scorer and the inference call.                                      *)
(***************************************************************************)
WeightIdx(w) ==
    CASE w = "finetuned" -> 0 [] w = "ckptA" -> 1 [] w = "ckptB" -> 2 [] OTHER -> 3

PointIdx(c) == CASE c = "pA" -> 1 [] c = "pB" -> 2 [] OTHER -> 0

ImageIdx(im) == CASE im = "ctA" -> 0 [] im = "ctB" -> 1 [] OTHER -> 2

VariantIdx(v) == CASE v = "Hiera3D" -> 0 [] v = "Hiera2D" -> 1 [] v = "ViT2D" -> 2 [] OTHER -> 3

\* the logit a variant with given weights gives one patch, in -3..3
Score(variant, weights, patch) ==
    ((WeightIdx(weights) + 2 * PointIdx(patch.coord) + 3 * ImageIdx(patch.image)
        + VariantIdx(variant)) % 7) - 3

\* model(nodules) in eval mode: one logit per item of the batch, in batch order
Forward(model, nodules) ==
    [i \in 1..Len(nodules) |-> Score(model.variant, model.weights, nodules[i])]

\* torch.sigmoid, in thousandths, on the logits the scorer can give
Sigmoid(x) ==
    CASE x = -3 -> 47 [] x = -2 -> 119 [] x = -1 -> 269 [] x = 0 -> 500
      [] x = 1 -> 731 [] x = 2 -> 881 [] x = 3 -> 953

\* the shape computed only on the logging path
OutputShapeLogGated(o, mode) ==
    IF mode = "3D" /\ ~o.suppress_logs
    THEN <<o.depth_px, o.size_px, o.size_px>>
    ELSE <<1, o.size_px, o.size_px>>

\* the 3D shape used in both modes
OutputShapeAlwaysDepth(o, mode) == <<o.depth_px, o.size_px, o.size_px>>

\* output_shape of _process_model
OutputShape(o, mode) ==
    IF mode = "3D"
    THEN <<o.depth_px, o.size_px, o.size_px>>
    ELSE <<1, o.size_px, o.size_px>>

\* the attribute _process_model reads the model from
ModelAttr(mode) == IF mode = "3D" THEN "model_3d" ELSE "model_2d"

Failed(o, err, tr, out) ==
    [obj |-> o, error |-> err, logits |-> <<>>, trace |-> tr, log |-> out]

\* _process_model
ProcessModel(o, mode, e) ==
    LET out == IF o.suppress_logs THEN <<>> ELSE <<"Processing in %s", mode>>
        output_shape == OutputShape(o, mode)
        attr == ModelAttr(mode)
        model == o[attr]
    IN  IF model.variant = "none" \/ "coords" \notin o.attrs
        THEN Failed(o, "AttributeError", <<>>, out)
        ELSE
        LET r == ExtractAll(o, o.coords, output_shape, mode, e)
        IN  IF r.error # "none" THEN Failed(o, r.error, r.trace, out)
            ELSE
            LET path == OsPathJoin(o.model_root, o.model_name, CkptFile)
                t1 == r.trace \o <<Ev("batch", ""), [Ev("torch.load", "") EXCEPT !.path = path]>>
            IN  IF e.file = "missing" THEN Failed(o, "FileNotFoundError", t1, out)
                ELSE
                LET t2 == Append(t1, Ev("load_state_dict", e.ckpt))
                IN  IF e.file = "mismatch"
                    THEN Failed([o EXCEPT ![attr].weights = "partial"],
                                "LoadStateError", t2, out)
                    ELSE
                    LET loaded == [model EXCEPT !.weights = e.ckpt, !.training = FALSE]
                        o2 == [o EXCEPT ![attr] = loaded]
                        logits == Forward(loaded, r.nodules)
                        fwd == [Ev("forward", loaded.weights) EXCEPT
                                  !.model = loaded.variant,
                                  !.out = IF e.forwardOk THEN logits ELSE <<>>]
                        t3 == t2 \o <<Ev("eval", ""), fwd>>
                    IN  IF ~e.forwardOk THEN Failed(o2, "ForwardError", t3, out)
                        ELSE [obj |-> o2, error |-> "none", logits |-> logits,
                              trace |-> t3, log |-> out]

NoRet == [status |-> "none", error |-> "none", probability |-> <<>>, logits |-> <<>>]

\* the logits returned in both positions
PredictReturnNoSigmoid(logits) ==
    [status |-> "ok", error |-> "none", probability |-> logits, logits |-> logits]

\* probability = torch.sigmoid(torch.from_numpy(logits)); return probability, logits
PredictReturn(logits) ==
    [status |-> "ok", error |-> "none",
     probability |-> [i \in 1..Len(logits) |-> Sigmoid(logits[i])],
     logits |-> logits]

\* predict
Predict(o, e) ==
    LET r == ProcessModel(o, o.mode, e)
    IN  [obj |-> r.obj,
         ret |-> IF r.error # "none"
                 THEN [NoRet EXCEPT !.status = "error", !.error = r.error]
                 ELSE PredictReturn(r.logits),
         trace |-> r.trace, log |-> r.log]

(***************************************************************************)
(* The state machine.                                                      *)
(***************************************************************************)
NoArgs == [defined |-> FALSE, image |-> "", header |-> EmptyHeader, coords |-> <<>>]

Init ==
    /\ ctor = [k \in Inst |-> "unborn"]
    /\ obj = [k \in Inst |-> NoObj]
    /\ ret = [k \in Inst |-> NoRet]
    /\ trace = [k \in Inst |-> <<>>]
    /\ log = [k \in Inst |-> <<>>]
    /\ cargs = [mode |-> "", model_name |-> <<>>]
    /\ args = NoArgs
    /\ env = NoEnv
    /\ call = "init"

\* MalignancyProcessor(mode, suppress_logs, model_name), once per instance
ConstructCall ==
    /\ call = "init"
    /\ \E mode \in Modes, model_name \in ModelNames :
         /\ ctor' = [k \in Inst |-> Construct(mode, SuppressOf(k), model_name).outcome]
         /\ obj' = [k \in Inst |-> Construct(mode, SuppressOf(k), model_name).obj]
         /\ log' = [k \in Inst |-> Construct(mode, SuppressOf(k), model_name).log]
         /\ cargs' = [mode |-> mode, model_name |-> model_name]
    /\ ret' = [k \in Inst |-> NoRet]
    /\ trace' = [k \in Inst |-> <<>>]
    /\ call' = "construct"
    /\ UNCHANGED <<args, env>>

\* define_inputs(image, header, coords) on every instance that exists
DefineInputsCall ==
    /\ \E k \in Inst : ctor[k] = "ok"
    /\ \E image \in Images, header \in Headers, coords \in CoordSeqs :
         /\ obj' = [k \in Inst |-> IF ctor[k] = "ok"
                                   THEN DefineInputs(obj[k], image, header, coords)
                                   ELSE obj[k]]
         /\ args' = [defined |-> TRUE, image |-> image, header |-> header,
                     coords |-> coords]
    /\ ret' = [k \in Inst |-> NoRet]
    /\ trace' = [k \in Inst |-> <<>>]
    /\ log' = [k \in Inst |-> <<>>]
    /\ env' = NoEnv
    /\ call' = "define_inputs"
    /\ UNCHANGED <<ctor, cargs>>

\* predict() on every instance that exists, in the same environment
PredictCall ==
    /\ \E k \in Inst : ctor[k] = "ok"
    /\ \E e \in Envs :
         LET r == [k \in Inst |-> Predict(obj[k], e)]
         IN  /\ obj' = [k \in Inst |-> IF ctor[k] = "ok" THEN r[k].obj ELSE obj[k]]
             /\ ret' = [k \in Inst |-> IF ctor[k] = "ok" THEN r[k].ret ELSE NoRet]
             /\ trace' = [k \in Inst |-> IF ctor[k] = "ok" THEN r[k].trace ELSE <<>>]
             /\ log' = [k \in Inst |-> IF ctor[k] = "ok" THEN r[k].log ELSE <<>>]
             /\ env' = e
    /\ call' = "predict"
    /\ UNCHANGED <<ctor, cargs, args>>

Next == ConstructCall \/ DefineInputsCall \/ PredictCall

Spec == Init /\ [][Next]_vars

(***************************************************************************)
(* Properties.                                                             *)
(***************************************************************************)
Alive(k) == ctor[k] = "ok"

Did(k, op) == \E i \in 1..Len(trace[k]) : trace[k][i].op = op

IsExtract(ev) == ev.op = "extract_patch"

IsForward(ev) == ev.op = "forward"

Ops(tr) == [i \in 1..Len(tr) |-> tr[i].op]

Args(tr) == [i \in 1..Len(tr) |-> tr[i].arg]

HeaderComplete(h) == HeaderKeys \subseteq DOMAIN h

\* sub occurs in s when letter case is ignored
ContainsIgnoringCase(sub, s) ==
    \E i \in 0..(Len(s) - Len(sub)) :
        \A j \in 1..Len(sub) : LowerChar(s[i + j]) = LowerChar(sub[j])

\* the variants an object holds
Active(o) == {o.model_3d.variant, o.model_2d.variant} \ {"none"}

\* the model the object scores with
Scorer(o) == IF o.mode = "3D" THEN o.model_3d ELSE o.model_2d

\* C1: construction follows the selector table for every (mode, model_name):
\* 3D + "hiera" gives 3D-Hiera, 2D + "hiera" gives 2D-Hiera, 2D + "vit" gives
\* 2D-ViT, anything else fails with no variant; on success exactly one variant
\* is active.  (The claim as stated.)
C1_SelectorTableAsStated ==
    call # "init" =>
      \A k \in Inst :
        LET hiera == ContainsIgnoringCase(StrHiera, cargs.model_name)
            vit == ContainsIgnoringCase(StrVit, cargs.model_name)
            m == cargs.mode
        IN  /\ (m = "3D" /\ hiera) => (ctor[k] = "ok" /\ Active(obj[k]) = {"Hiera3D"})
            /\ (m = "2D" /\ hiera) => (ctor[k] = "ok" /\ Active(obj[k]) = {"Hiera2D"})
            /\ (m = "2D" /\ vit) => (ctor[k] = "ok" /\ Active(obj[k]) = {"ViT2D"})
            /\ ~((m = "3D" /\ hiera) \/ (m = "2D" /\ (hiera \/ vit)))
                 => (ctor[k] = "ValueError" /\ Active(obj[k]) = {})
            /\ ctor[k] = "ok" => Cardinality(Active(obj[k])) = 1

\* C1 (amended): as above, except that 2D + "vit" gives 2D-ViT only when the
\* name does not also contain "hiera"; a 2D name with both gives 2D-Hiera.
C1_SelectorTable ==
    call # "init" =>
      \A k \in Inst :
        LET hiera == ContainsIgnoringCase(StrHiera, cargs.model_name)
            vit == ContainsIgnoringCase(StrVit, cargs.model_name)
            m == cargs.mode
        IN  /\ (m = "3D" /\ hiera) => (ctor[k] = "ok" /\ Active(obj[k]) = {"Hiera3D"})
            /\ (m = "2D" /\ hiera) => (ctor[k] = "ok" /\ Active(obj[k]) = {"Hiera2D"})
            /\ (m = "2D" /\ vit /\ ~hiera) => (ctor[k] = "ok" /\ Active(obj[k]) = {"ViT2D"})
            /\ ~((m = "3D" /\ hiera) \/ (m = "2D" /\ (hiera \/ vit)))
                 => (ctor[k] = "ValueError" /\ Active(obj[k]) = {})
            /\ ctor[k] = "ok" => Cardinality(Active(obj[k])) = 1

\* a 2D processor whose mixed-case name holds both "hiera" and "vit" exists
C1_Witness ==
    /\ call = "construct"
    /\ cargs.mode = "2D"
    /\ ContainsIgnoringCase(StrHiera, cargs.model_name)
    /\ ContainsIgnoringCase(StrVit, cargs.model_name)
    /\ ctor[1] = "ok"
    /\ Active(obj[1]) = {"Hiera2D"}

\* C2: predict on an empty candidate sequence returns two empty sequences
\* without raising, and performs neither the checkpoint load nor the forward pass.
C2_EmptyCandidates ==
    (call = "predict" /\ args.defined /\ args.coords = <<>>) =>
      \A k \in Inst :
        Alive(k) =>
          /\ ret[k].status = "ok"
          /\ ret[k].probability = <<>>
          /\ ret[k].logits = <<>>
          /\ ~Did(k, "torch.load")
          /\ ~Did(k, "load_state_dict")
          /\ ~Did(k, "forward")

\* the patch predict is to score for the i-th candidate of the last define_inputs
PatchOf(o, i) ==
    Normalize(o, DataloaderExtractPatch(args.image, args.coords[i],
                    args.header["origin"], args.header["transform"],
                    args.header["spacing"], OutputShape(o, o.mode),
                    <<size_mm, size_px>>, o.mode))

\* C3: a successful predict on n candidates returns n probabilities and n
\* logits, the i-th pair being the score of the patch of the i-th candidate;
\* patches are extracted in input order, none dropped, duplicated or reordered.
C3_AlignedWithCandidates ==
    call = "predict" =>
      \A k \in Inst :
        (Alive(k) /\ ret[k].status = "ok") =>
          /\ Len(ret[k].logits) = Len(args.coords)
          /\ Len(ret[k].probability) = Len(args.coords)
          /\ Args(SelectSeq(trace[k], IsExtract)) = args.coords
          /\ \A i \in 1..Len(args.coords) :
               /\ ret[k].logits[i] = Score(Scorer(obj[k]).variant, env.ckpt, PatchOf(obj[k], i))
               /\ ret[k].probability[i] = Sigmoid(ret[k].logits[i])

\* a successful predict on two different candidates whose logits differ
C3_Witness ==
    /\ call = "predict"
    /\ ret[1].status = "ok"
    /\ Len(args.coords) = 2
    /\ args.coords[1] # args.coords[2]
    /\ ret[1].logits[1] # ret[1].logits[2]

\* C4: predict returns the logits of the forward pass unchanged, and each
\* probability is the sigmoid of the logit at the same index.
C4_ProbabilityIsSigmoid ==
    call = "predict" =>
      \A k \in Inst :
        (Alive(k) /\ ret[k].status = "ok") =>
          /\ Len(trace[k]) > 0
          /\ IsForward(trace[k][Len(trace[k])])
          /\ ret[k].logits = trace[k][Len(trace[k])].out
          /\ DOMAIN ret[k].probability = DOMAIN ret[k].logits
          /\ \A i \in DOMAIN ret[k].logits :
               ret[k].probability[i] = Sigmoid(ret[k].logits[i])

\* a successful predict that returned a non-zero logit
C4_Witness ==
    /\ call = "predict"
    /\ ret[1].status = "ok"
    /\ \E i \in DOMAIN ret[1].logits : ret[1].logits[i] # 0

\* C5: with a header lacking origin, spacing or transform, predict fails with
\* the configuration error before any patch is extracted, before the checkpoint
\* is loaded and before the forward pass, for every candidate sequence, the
\* empty one included.
C5_IncompleteHeaderFailsEarly ==
    (call = "predict" /\ args.defined /\ ~HeaderComplete(args.header)) =>
      \A k \in Inst :
        Alive(k) =>
          /\ ret[k].status = "error"
          /\ ret[k].error = "KeyError"
          /\ ~Did(k, "extract_patch")
          /\ ~Did(k, "torch.load")
          /\ ~Did(k, "forward")

\* C6: if extraction fails for a candidate, or the checkpoint load fails, or
\* the forward pass fails, predict ends with the error and returns no
\* probability and no logit; a call ends either with results or with an error.
C6_AllOrNothing ==
    call = "predict" =>
      \A k \in Inst :
        Alive(k) =>
          /\ ret[k].status \in {"ok", "error"}
          /\ (ret[k].status = "error") = (ret[k].error # "none")
          /\ ( \/ \E i \in 1..Len(args.coords) : args.coords[i] = env.bad
               \/ env.file # "ok"
               \/ ~env.forwardOk )
             => ( /\ ret[k].status = "error"
                  /\ ret[k].probability = <<>>
                  /\ ret[k].logits = <<>> )
          /\ ( /\ args.defined /\ HeaderComplete(args.header)
               /\ \E i \in 1..Len(args.coords) : args.coords[i] = env.bad )
             => ret[k].error = "ExtractionError"

\* the second candidate's extraction failed after the first patch was made
C6_Witness ==
    /\ call = "predict"
    /\ Len(args.coords) = 2
    /\ args.coords[1] # env.bad
    /\ args.coords[2] = env.bad
    /\ HeaderComplete(args.header)
    /\ env.file = "ok"
    /\ Did(1, "normalize")
    /\ ret[1].status = "error"
    /\ ret[1].error = "ExtractionError"

\* C7: two processors that differ only in suppress_logs, driven by the same
\* calls, agree on the construction outcome, on the steps performed, on the
\* results or errors and on their state; only the log output may differ.
C7_SuppressLogsNoEffect ==
    /\ ctor[1] = ctor[2]
    /\ ret[1] = ret[2]
    /\ trace[1] = trace[2]
    /\ [obj[1] EXCEPT !.suppress_logs = FALSE] = [obj[2] EXCEPT !.suppress_logs = FALSE]

\* a successful 3D predict of both, one of them logging and one silent
C7_Witness ==
    /\ call = "predict"
    /\ obj[1].mode = "3D"
    /\ obj[1].suppress_logs # obj[2].suppress_logs
    /\ ret[1].status = "ok"
    /\ Len(args.coords) > 0
    /\ log[1] # log[2]

RECURSIVE CollapseSeps(_)
\* a path with runs of separators reduced to one
CollapseSeps(s) ==
    IF Len(s) < 2 THEN s
    ELSE IF s[1] = Sep /\ s[2] = Sep THEN CollapseSeps(Tail(s))
    ELSE <<s[1]>> \o CollapseSeps(Tail(s))

\* <model_root>/<model_name>/best_metric_model.pth
ConventionPath(model_name) ==
    CollapseSeps(ModelRoot \o <<Sep>> \o model_name \o <<Sep>> \o CkptFile)

RECURSIVE PerCandidateOps(_)
PerCandidateOps(n) ==
    IF n = 0 THEN <<>> ELSE <<"extract_patch", "normalize">> \o PerCandidateOps(n - 1)

\* the steps of a call that reaches the forward pass, in order
InferenceOps(n) ==
    PerCandidateOps(n) \o <<"batch", "torch.load", "load_state_dict", "eval", "forward">>

\* the order of the steps, and the weights of the forward pass being those
\* loaded in the same call
StepsInOrder(k) ==
    LET n == Len(args.coords)
    IN  /\ Ops(trace[k]) = InferenceOps(n)
        /\ \A i \in 1..n : trace[k][2 * i - 1].arg = args.coords[i]
        /\ trace[k][2 * n + 3].arg = env.ckpt
        /\ trace[k][2 * n + 5].arg = env.ckpt
        /\ ~Scorer(obj[k]).training

\* C8: a predict call that reaches inference extracts and normalizes a patch
\* per candidate, assembles the batch, loads the checkpoint at
\* <model_root>/<model_name>/best_metric_model.pth, sets evaluation mode and
\* runs exactly one forward pass, on the weights loaded in that call.
C8_InferenceSteps ==
    call = "predict" =>
      \A k \in Inst :
        (Alive(k) /\ Did(k, "forward")) =>
          /\ StepsInOrder(k)
          /\ CollapseSeps(trace[k][2 * Len(args.coords) + 2].path)
               = ConventionPath(obj[k].model_name)

\* the same with the path being os.path.join of the three parts
InferenceStepsJoinedPath ==
    call = "predict" =>
      \A k \in Inst :
        (Alive(k) /\ Did(k, "forward")) =>
          /\ StepsInOrder(k)
          /\ trace[k][2 * Len(args.coords) + 2].path
               = OsPathJoin(ModelRoot, obj[k].model_name, CkptFile)

\* what define_inputs and predict must leave alone, and the shape and scorer
\* of the predict call that led to the primed state
FrameStep(k) ==
    /\ ctor'[k] = "ok"
    /\ obj'[k].mode = obj[k].mode
    /\ obj'[k].mode = cargs.mode
    /\ obj'[k].model_name = obj[k].model_name
    /\ obj'[k].model_name = cargs.model_name
    /\ obj'[k].model_3d.variant = obj[k].model_3d.variant
    /\ obj'[k].model_2d.variant = obj[k].model_2d.variant
    /\ obj'[k].size_px = size_px
    /\ obj'[k].size_mm = size_mm
    /\ obj'[k].depth_px = depth_px
    /\ \A i \in 1..Len(trace'[k]) :
         /\ IsExtract(trace'[k][i]) =>
              trace'[k][i].shape = IF obj[k].mode = "3D"
                                   THEN <<depth_px, size_px, size_px>>
                                   ELSE <<1, size_px, size_px>>
         /\ IsForward(trace'[k][i]) =>
              /\ trace'[k][i].model = Scorer(obj[k]).variant
              /\ Active(obj[k]) = {trace'[k][i].model}

\* C9: after construction, define_inputs and predict calls, failed ones
\* included, leave mode, model_name, the selected variant and size_px, size_mm,
\* depth_px unchanged; every predict asks for patches of shape
\* [depth_px, size_px, size_px] in 3D and [1, size_px, size_px] in 2D and
\* scores with the variant selected at construction.
C9_ConfigurationFixed ==
    [][\A k \in Inst : Alive(k) => FrameStep(k)]_vars

\* a 2D predict that extracted a patch and then failed
C9_Witness ==
    /\ call = "predict"
    /\ obj[1].mode = "2D"
    /\ Did(1, "extract_patch")
    /\ ret[1].status = "error"

\* what predict gives on a newly constructed processor holding exactly the
\* arguments of the last define_inputs call
FreshPredict(k) ==
    LET fresh == Construct(cargs.mode, SuppressOf(k), cargs.model_name).obj
        given == IF args.defined
                 THEN [fresh EXCEPT !.image = args.image, !.header = args.header,
                                    !.coords = args.coords,
                                    !.attrs = {"image", "header", "coords"}]
                 ELSE fresh
    IN  Predict(given, env)

\* C10: predict works on the image, header and candidates of the most recent
\* define_inputs call; earlier inputs and earlier predict outcomes do not
\* affect its steps or its result; before any define_inputs call it fails
\* without loading the checkpoint or running the model.
C10_LatestInputsOnly ==
    call = "predict" =>
      \A k \in Inst :
        Alive(k) =>
          /\ ret[k] = FreshPredict(k).ret
          /\ trace[k] = FreshPredict(k).trace
          /\ obj[k].image = args.image
          /\ obj[k].header = args.header
          /\ obj[k].coords = args.coords
          /\ ~args.defined =>
               /\ ret[k].status = "error"
               /\ ret[k].error = "AttributeError"
               /\ trace[k] = <<>>

\* a predict that failed at the checkpoint file, on a model still holding the
\* weights an earlier predict had loaded
C10_Witness ==
    /\ call = "predict"
    /\ args.defined
    /\ ret[1].status = "error"
    /\ ret[1].error = "FileNotFoundError"
    /\ Scorer(obj[1]).weights = "ckptB"

=============================================================================
